---- MODULE Spec2Model ----
(***************************************************************************)
(* Model of get_instance_details.py: the pipeline that lists the zones of  *)
(* a region, resolves instance families to instance types, enriches every  *)
(* instance type on a bounded thread pool and writes the collected records *)
(* to a JSON file.                                                         *)
(*                                                                         *)
(* Names (family tokens, instance types) are sequences of one-character    *)
(* strings, so that the regular expression of main() can be modelled by    *)
(* what it does.  Prices are natural numbers (a price unit), 0 included.   *)
(* The AWS CLI is the environment: its responses are fixed in the initial  *)
(* state (variable aws) and read by the actions.                           *)
(***************************************************************************)
EXTENDS Integers, Sequences, FiniteSets, TLC

VARIABLES
    args,                \* parsed command line: instance_families, max_workers
    aws,                 \* responses of the AWS CLI (environment)
    pc,                  \* position of the main thread
    exit_code,           \* process exit status, -1 while running
    exit_site,           \* which sys.exit ended the run ("" if none)
    all_azs,             \* main(): all_azs
    all_instance_types,  \* main(): all_instance_types
    queried,             \* families as passed to get_instance_types_for_family
    futures,             \* futures in submission order
    worker,              \* pool thread -> index of the future it runs, 0 if idle
    results,             \* main(): results
    yielded,             \* futures already yielded by as_completed
    output               \* the output file

vars == <<args, aws, pc, exit_code, exit_site, all_azs, all_instance_types,
          queried, futures, worker, results, yielded, output>>

----------------------------------------------------------------------------
(* Bounds *)
MaxFamilies == 3      \* family tokens on the command line
MaxWorkers == 2       \* largest --max-workers value
MaxPrice == 2         \* prices range over 0..MaxPrice
MaxSpotEntries == 2   \* entries of a SpotPriceHistory
MaxProducts == 2      \* entries of a PriceList

Prices == 0..MaxPrice

SeqUpTo(S, n) == UNION {[1..k -> S] : k \in 0..n}

----------------------------------------------------------------------------
(* Names *)
m5 == <<"m", "5">>
g6_x == <<"g", "6", ".", "x">>          \* an instance type, e.g. g6.xlarge
g6_2x == <<"g", "6", ".", "2", "x">>    \* a family token with a size, g6.2xlarge
m5_x == <<"m", "5", ".", "x">>

\* the instance types the region offers, in the order the API lists them
Catalog == <<g6_x, m5_x>>
CatalogTypes == {Catalog[i] : i \in 1..Len(Catalog)}

Zones == {"az1", "az2"}

IsDigit(c) == c \in {"0", "1", "2", "3", "4", "5", "6", "7", "8", "9"}

----------------------------------------------------------------------------
(* re.sub(r'\.\d+.*$', '', family)                                          *)

\* end of a match of \d+.*$ : '.' does not match a newline and '$' matches
\* at the end of the string or just before a final newline
MatchEnd(s) ==
    IF Len(s) > 0 /\ s[Len(s)] = "\n" THEN Len(s) ELSE Len(s) + 1

\* the pattern matches at position i of s
MatchesAt(s, i) ==
    /\ s[i] = "."
    /\ i + 1 <= Len(s)
    /\ IsDigit(s[i + 1])
    /\ i + 2 <= MatchEnd(s)
    /\ \A k \in (i + 1)..(MatchEnd(s) - 1) : s[k] # "\n"

StripSize(s) ==
    LET hits == {i \in 1..Len(s) : MatchesAt(s, i)}
    IN  IF hits = {} THEN s
        ELSE LET i == CHOOSE j \in hits : \A k \in hits : j <= k
             IN  SubSeq(s, 1, i - 1) \o SubSeq(s, MatchEnd(s), Len(s))

----------------------------------------------------------------------------
(* run_aws_command and the calls built on it                                *)

\* run_aws_command calls sys.exit(1) on a CLI error or unparsable output
run_aws_command_exits(resp) == resp.kind \in {"cli_error", "bad_json"}

\* the filter Name=instance-type,Values=<family>.* as the API applies it
MatchesFilter(type, family) ==
    LET prefix == family \o <<".">>
    IN  /\ Len(type) >= Len(prefix)
        /\ SubSeq(type, 1, Len(prefix)) = prefix

RECURSIVE SelectSeqBy(_, _)
SelectSeqBy(s, family) ==
    IF s = <<>> THEN <<>>
    ELSE (IF MatchesFilter(Head(s), family) THEN <<Head(s)>> ELSE <<>>)
         \o SelectSeqBy(Tail(s), family)

\* result.get("InstanceTypes", []) of the family query, as instance type names
get_instance_types_for_family(family) == SelectSeqBy(Catalog, family)

\* [az["ZoneName"] for az in result.get("AvailabilityZones", [])]
get_availability_zones(resp) == resp.AvailabilityZones

----------------------------------------------------------------------------
(* Optional values: Python's None and a float                               *)
None == [some |-> FALSE, value |-> 0]
Some(v) == [some |-> TRUE, value |-> v]

\* truth value of "if price:" -- None and 0.0 are both false
Truthy(o) == o.some /\ o.value # 0

----------------------------------------------------------------------------
(* get_instance_details                                                     *)

\* Convert x86_64 to amd64
ConvertArchitecture(architecture) ==
    IF architecture = "x86_64" THEN "amd64" ELSE architecture

\* .get("SupportedArchitectures", ["x86_64"])
SupportedArchitectures(instance_info) ==
    IF instance_info.hasArchitectures
    THEN instance_info.SupportedArchitectures
    ELSE <<"x86_64">>

\* outcome of get_instance_details on the response resp:
\*   "exit"       run_aws_command called sys.exit(1)
\*   "none"       no InstanceTypes in the response, None is returned
\*   "exception"  [0] of an empty architecture list raises IndexError
\*   "ok"         the details, of which the model keeps the architecture
get_instance_details(resp) ==
    IF run_aws_command_exits(resp)
    THEN [kind |-> "exit", architecture |-> ""]
    ELSE IF resp.InstanceTypes = <<>>
    THEN [kind |-> "none", architecture |-> ""]
    ELSE LET archs == SupportedArchitectures(resp.InstanceTypes[1])
         IN  IF archs = <<>>
             THEN [kind |-> "exception", architecture |-> ""]
             ELSE [kind |-> "ok",
                   architecture |-> ConvertArchitecture(archs[1])]

----------------------------------------------------------------------------
(* get_spot_prices                                                          *)

\* "if az not in prices_by_az or price < prices_by_az[az]['price']"
ReplacesLowest(prices_by_az, az, price) ==
    \/ az \notin DOMAIN prices_by_az
    \/ price < prices_by_az[az].price

\* the loop over SpotPriceHistory, keeping the lowest price of each zone
RECURSIVE LowestByAz(_, _)
LowestByAz(history, prices_by_az) ==
    IF history = <<>> THEN prices_by_az
    ELSE LET az == Head(history).AvailabilityZone
             price == Head(history).SpotPrice
         IN  LowestByAz(Tail(history),
                 IF ReplacesLowest(prices_by_az, az, price)
                 THEN [z \in DOMAIN prices_by_az \cup {az} |->
                          IF z = az THEN [price |-> price, available |-> TRUE]
                          ELSE prices_by_az[z]]
                 ELSE prices_by_az)

\* a variant of SpotQueryFailure that lets the failure leave the call
SpotQueryFailure_Raises(resp) == [kind |-> "exception", prices |-> <<>>]

\* the two except clauses of get_spot_prices: "return {}"
SpotQueryFailure(resp) == [kind |-> "ok", prices |-> <<>>]

\* outcome of get_spot_prices: the price map, or an exception that neither
\* except clause catches (subprocess.run raising OSError)
get_spot_prices(resp) ==
    IF resp.kind \in {"cli_error", "bad_json"}
    THEN SpotQueryFailure(resp)
    ELSE IF resp.kind = "os_error"
    THEN [kind |-> "exception", prices |-> <<>>]
    ELSE [kind |-> "ok", prices |-> LowestByAz(resp.SpotPriceHistory, <<>>)]

----------------------------------------------------------------------------
(* get_on_demand_price                                                      *)

\* the loop over PriceList: a product that does not parse is skipped, the
\* first price dimension of the first product that has one is returned
RECURSIVE FirstPrice(_)
FirstPrice(price_list) ==
    IF price_list = <<>> THEN None
    ELSE LET product == Head(price_list)
         IN  IF product.parses /\ product.priceDimensions # <<>>
             THEN Some(product.priceDimensions[1])
             ELSE FirstPrice(Tail(price_list))

get_on_demand_price(resp) ==
    IF resp.kind \in {"cli_error", "bad_json"}
    THEN [kind |-> "ok", price |-> None]
    ELSE IF resp.kind = "os_error"
    THEN [kind |-> "exception", price |-> None]
    ELSE [kind |-> "ok", price |-> FirstPrice(resp.PriceList)]

----------------------------------------------------------------------------
(* process_instance_type                                                    *)

Requirements(capacity_type, az) ==
    <<[key |-> "karpenter.sh/capacity-type", operator |-> "In",
       values |-> <<capacity_type>>],
      [key |-> "topology.kubernetes.io/zone", operator |-> "In",
       values |-> <<az>>]>>

\* spot_prices.get(az, {"price": None, "available": False})
SpotInfo(spot_prices, az) ==
    IF az \in DOMAIN spot_prices
    THEN [price |-> Some(spot_prices[az].price),
          available |-> spot_prices[az].available]
    ELSE [price |-> None, available |-> FALSE]

RECURSIVE SetToSeq(_)
SetToSeq(S) ==
    IF S = {} THEN <<>>
    ELSE LET x == CHOOSE y \in S : TRUE IN <<x>> \o SetToSeq(S \ {x})

\* a variant of SpotLoopZones that iterates over the zones of the price map
SpotLoopZones_Priced(azs, spot_prices) == SetToSeq(DOMAIN spot_prices)

\* the zones the spot loop iterates over: "for az in all_azs"
SpotLoopZones(azs, spot_prices) == azs

RECURSIVE SpotOfferingsOver(_, _)
SpotOfferingsOver(zs, spot_prices) ==
    IF zs = <<>> THEN <<>>
    ELSE LET az == Head(zs)
             spot_info == SpotInfo(spot_prices, az)
         IN  (IF Truthy(spot_info.price)
              THEN <<[Price |-> spot_info.price.value,
                      Available |-> spot_info.available,
                      Requirements |-> Requirements("spot", az)]>>
              ELSE <<>>)
             \o SpotOfferingsOver(Tail(zs), spot_prices)

SpotOfferings(azs, spot_prices) ==
    SpotOfferingsOver(SpotLoopZones(azs, spot_prices), spot_prices)

\* the zones that get an on-demand offering: "for az in all_azs"
OnDemandLoopZones(azs) == azs

OnDemandOfferings(azs, on_demand_price) ==
    IF Truthy(on_demand_price)
    THEN [i \in 1..Len(OnDemandLoopZones(azs)) |->
             [Price |-> on_demand_price.value,
              Available |-> TRUE,
              Requirements |->
                  Requirements("on-demand", OnDemandLoopZones(azs)[i])]]
    ELSE <<>>

NoRecord == [name |-> <<>>, offerings |-> <<>>, architecture |-> ""]

\* outcome of process_instance_type(region, instance_type, all_azs):
\*   "record"     the dict is returned
\*   "none"       None is returned (no hardware data)
\*   "exception"  an Exception leaves the call
\*   "exit"       SystemExit leaves the call
process_instance_type(instance_type, azs) ==
    LET instance_details == get_instance_details(aws.hw[instance_type])
        spot == get_spot_prices(aws.spot[instance_type])
        on_demand == get_on_demand_price(aws.od[instance_type])
    IN  IF instance_details.kind # "ok"
        THEN [kind |-> instance_details.kind, rec |-> NoRecord]
        ELSE IF spot.kind = "exception" \/ on_demand.kind = "exception"
        THEN [kind |-> "exception", rec |-> NoRecord]
        ELSE [kind |-> "record",
              rec |-> [name |-> instance_type,
                       offerings |->
                           SpotOfferings(azs, spot.prices)
                           \o OnDemandOfferings(azs, on_demand.price),
                       architecture |-> instance_details.architecture]]

----------------------------------------------------------------------------
(* Responses of the AWS CLI                                                 *)

ZoneResponse(kind, zone_names) ==
    [kind |-> kind, AvailabilityZones |-> zone_names]
HwResponse(kind, instance_types) ==
    [kind |-> kind, InstanceTypes |-> instance_types]
SpotResponse(kind, history) ==
    [kind |-> kind, SpotPriceHistory |-> history]
OdResponse(kind, price_list) ==
    [kind |-> kind, PriceList |-> price_list]

InstanceInfo(has, archs) ==
    [hasArchitectures |-> has, SupportedArchitectures |-> archs]

\* zone lists name each zone once
ZoneLists == {zs \in SeqUpTo(Zones, Cardinality(Zones)) :
                 \A i, j \in 1..Len(zs) : zs[i] = zs[j] => i = j}

ArchitectureLists ==
    {<<>>, <<"x86_64">>, <<"arm64">>, <<"i386", "x86_64">>}

HwResponses ==
    {HwResponse("cli_error", <<>>), HwResponse("bad_json", <<>>),
     HwResponse("ok", <<>>), HwResponse("ok", <<InstanceInfo(FALSE, <<>>)>>)}
    \cup {HwResponse("ok", <<InstanceInfo(TRUE, a)>>) : a \in ArchitectureLists}

SpotEntries == [AvailabilityZone : Zones, SpotPrice : Prices]

SpotResponses ==
    {SpotResponse(k, <<>>) : k \in {"cli_error", "bad_json", "os_error"}}
    \cup {SpotResponse("ok", h) : h \in SeqUpTo(SpotEntries, MaxSpotEntries)}

Products ==
    {[parses |-> FALSE, priceDimensions |-> <<>>],
     [parses |-> TRUE, priceDimensions |-> <<>>]}
    \cup {[parses |-> TRUE, priceDimensions |-> <<p>>] : p \in Prices}

OdResponses ==
    {OdResponse(k, <<>>) : k \in {"cli_error", "bad_json", "os_error"}}
    \cup {OdResponse("ok", l) : l \in SeqUpTo(Products, MaxProducts)}

\* a backend that answers every call with usable data
GoodZones == ZoneResponse("ok", <<"az1", "az2">>)
GoodHw == HwResponse("ok", <<InstanceInfo(TRUE, <<"x86_64">>)>>)
GoodSpot == SpotResponse("ok", <<[AvailabilityZone |-> "az1", SpotPrice |-> 1]>>)
GoodOd == OdResponse("ok", <<[parses |-> TRUE, priceDimensions |-> <<2>>]>>)

----------------------------------------------------------------------------
(* Initial states                                                           *)

\* family tokens: with a size that starts with a digit, with a size that does
\* not, and bare
FamilyTokens == {g6_2x, g6_x, m5}

FamilyLists == SeqUpTo(FamilyTokens, MaxFamilies) \ {<<>>}

\* the hardware responses the pipeline specification draws from
PipelineHw ==
    {GoodHw, HwResponse("cli_error", <<>>), HwResponse("ok", <<>>),
     HwResponse("ok", <<InstanceInfo(TRUE, <<>>)>>)}

Start ==
    /\ pc = "zones"
    /\ exit_code = -1
    /\ exit_site = ""
    /\ all_azs = <<>>
    /\ all_instance_types = <<>>
    /\ queried = <<>>
    /\ futures = <<>>
    /\ worker = [w \in 1..MaxWorkers |-> 0]
    /\ results = <<>>
    /\ yielded = {}
    /\ output = [written |-> FALSE, records |-> <<>>]

\* the pipeline: several families, several workers, few kinds of response
Init ==
    /\ args \in [instance_families : FamilyLists, max_workers : 1..MaxWorkers]
    /\ aws \in [zones : {GoodZones, ZoneResponse("cli_error", <<>>)},
                listing : {"ok", "cli_error"},
                hw : [CatalogTypes -> PipelineHw],
                spot : [CatalogTypes -> {GoodSpot}],
                od : [CatalogTypes -> {GoodOd}]]
    /\ Start

\* a few responses of each pricing query: the three failures, usable data,
\* an empty answer and a price of zero
SpotFew ==
    {SpotResponse(k, <<>>) : k \in {"cli_error", "bad_json", "os_error"}}
    \cup {GoodSpot, SpotResponse("ok", <<>>),
          SpotResponse("ok", <<[AvailabilityZone |-> "az2", SpotPrice |-> 0]>>)}

OdFew ==
    {OdResponse(k, <<>>) : k \in {"cli_error", "bad_json", "os_error"}}
    \cup {GoodOd, OdResponse("ok", <<>>),
          OdResponse("ok", <<[parses |-> TRUE, priceDimensions |-> <<0>>]>>)}

\* the responses the Enricher specification draws from: every response of one
\* query combined with the few responses of the other queries
EnrichInputs ==
    (ZoneLists \X {GoodHw} \X SpotResponses \X OdFew)
    \cup (ZoneLists \X {GoodHw} \X SpotFew \X OdResponses)
    \cup ({GoodZones.AvailabilityZones} \X HwResponses \X SpotFew \X OdFew)

\* the Enricher: one family, one worker, every kind of response
InitEnrich ==
    /\ args = [instance_families |-> <<m5>>, max_workers |-> 1]
    /\ \E input \in EnrichInputs :
          aws = [zones |-> ZoneResponse("ok", input[1]),
                 listing |-> "ok",
                 hw |-> [t \in CatalogTypes |->
                            IF t = m5_x THEN input[2] ELSE GoodHw],
                 spot |-> [t \in CatalogTypes |->
                              IF t = m5_x THEN input[3] ELSE GoodSpot],
                 od |-> [t \in CatalogTypes |->
                            IF t = m5_x THEN input[4] ELSE GoodOd]]
    /\ Start

----------------------------------------------------------------------------
(* The main thread                                                          *)

Exit(site) ==
    /\ pc' = "exited"
    /\ exit_code' = 1
    /\ exit_site' = site

\* all_azs = get_availability_zones(args.region)
GetAvailabilityZones ==
    /\ pc = "zones"
    /\ IF run_aws_command_exits(aws.zones)
       THEN Exit("zones") /\ UNCHANGED all_azs
       ELSE /\ all_azs' = get_availability_zones(aws.zones)
            /\ pc' = "resolve"
            /\ UNCHANGED <<exit_code, exit_site>>
    /\ UNCHANGED <<args, aws, all_instance_types, queried, futures, worker,
                   results, yielded, output>>

\* one iteration of "for family in args.instance_families"
ResolveFamily ==
    /\ pc = "resolve"
    /\ Len(queried) < Len(args.instance_families)
    /\ LET family == StripSize(args.instance_families[Len(queried) + 1])
       IN  /\ queried' = Append(queried, family)
           /\ IF run_aws_command_exits([kind |-> aws.listing])
              THEN Exit("listing") /\ UNCHANGED all_instance_types
              ELSE /\ all_instance_types' =
                          all_instance_types \o get_instance_types_for_family(family)
                   /\ UNCHANGED <<pc, exit_code, exit_site>>
    /\ UNCHANGED <<args, aws, all_azs, futures, worker, results, yielded, output>>

\* a variant of NoInstanceTypes that never reports an empty list
NoInstanceTypes_Never(types) == FALSE

\* "if not all_instance_types"
NoInstanceTypes(types) == types = <<>>

\* the check after the loop over the families
CheckInstanceTypes ==
    /\ pc = "resolve"
    /\ Len(queried) = Len(args.instance_families)
    /\ IF NoInstanceTypes(all_instance_types)
       THEN Exit("no_types")
       ELSE pc' = "submit" /\ UNCHANGED <<exit_code, exit_site>>
    /\ UNCHANGED <<args, aws, all_azs, all_instance_types, queried, futures,
                   worker, results, yielded, output>>

NoOutcome == [kind |-> "unset", rec |-> NoRecord]

\* one step of the dict comprehension: executor.submit for the next instance
\* type, or the end of the comprehension
Submit ==
    /\ pc = "submit"
    /\ IF Len(futures) < Len(all_instance_types)
       THEN /\ futures' = Append(futures,
                   [instance_type |-> all_instance_types[Len(futures) + 1],
                    state |-> "pending", starts |-> 0, outcome |-> NoOutcome])
            /\ pc' = "submit"
       ELSE /\ pc' = "collect"
            /\ UNCHANGED futures
    /\ UNCHANGED <<args, aws, exit_code, exit_site, all_azs, all_instance_types,
                   queried, worker, results, yielded, output>>

----------------------------------------------------------------------------
(* The thread pool: ThreadPoolExecutor(max_workers=args.max_workers)        *)

\* a variant of PoolThread that ignores max_workers
PoolThread_Unbounded(w) == TRUE

\* the threads the executor may create
PoolThread(w) == w <= args.max_workers

Pending == {i \in 1..Len(futures) : futures[i].state = "pending"}
Running == {i \in 1..Len(futures) : futures[i].state = "running"}
Finished == {i \in 1..Len(futures) : futures[i].state = "finished"}

\* an idle pool thread takes the oldest pending work item off the queue
WorkerStart(w) ==
    /\ PoolThread(w)
    /\ worker[w] = 0
    /\ Pending # {}
    /\ LET i == CHOOSE j \in Pending : \A k \in Pending : j <= k
       IN  /\ futures' = [futures EXCEPT ![i].state = "running",
                                         ![i].starts = @ + 1]
           /\ worker' = [worker EXCEPT ![w] = i]
    /\ UNCHANGED <<args, aws, pc, exit_code, exit_site, all_azs,
                   all_instance_types, queried, results, yielded, output>>

\* the work item runs process_instance_type to its end and sets the future
WorkerFinish(w) ==
    /\ worker[w] # 0
    /\ LET i == worker[w]
       IN  futures' = [futures EXCEPT
               ![i].state = "finished",
               ![i].outcome = process_instance_type(futures[i].instance_type,
                                                    all_azs)]
    /\ worker' = [worker EXCEPT ![w] = 0]
    /\ UNCHANGED <<args, aws, pc, exit_code, exit_site, all_azs,
                   all_instance_types, queried, results, yielded, output>>

----------------------------------------------------------------------------
(* The coordinator: for future in as_completed(future_to_instance)          *)

\* one iteration of the loop: future.result() returns the record or None,
\* raises an Exception that the except clause catches, or raises SystemExit,
\* which "except Exception" does not catch
Collect ==
    /\ pc = "collect"
    /\ \E i \in Finished \ yielded :
          /\ yielded' = yielded \cup {i}
          /\ results' = IF futures[i].outcome.kind = "record"
                        THEN Append(results, futures[i].outcome.rec)
                        ELSE results
          /\ pc' = IF futures[i].outcome.kind = "exit"
                   THEN "unwind" ELSE "collect"
    /\ UNCHANGED <<args, aws, exit_code, exit_site, all_azs, all_instance_types,
                   queried, futures, worker, output>>

\* leaving the with block: executor.shutdown(wait=True) returns when every
\* work item has run; a propagating SystemExit then ends the process
Shutdown ==
    /\ pc \in {"collect", "unwind"}
    /\ pc = "collect" => yielded = 1..Len(futures)
    /\ Finished = 1..Len(futures)
    /\ IF pc = "unwind"
       THEN Exit("worker")
       ELSE pc' = "write" /\ UNCHANGED <<exit_code, exit_site>>
    /\ UNCHANGED <<args, aws, all_azs, all_instance_types, queried, futures,
                   worker, results, yielded, output>>

\* json.dumps(results) written to the output file, then exit status 0
WriteOutput ==
    /\ pc = "write"
    /\ output' = [written |-> TRUE, records |-> results]
    /\ pc' = "done"
    /\ exit_code' = 0
    /\ UNCHANGED <<args, aws, exit_site, all_azs, all_instance_types, queried,
                   futures, worker, results, yielded>>

Next ==
    \/ GetAvailabilityZones
    \/ ResolveFamily
    \/ CheckInstanceTypes
    \/ Submit
    \/ \E w \in 1..MaxWorkers : WorkerStart(w)
    \/ \E w \in 1..MaxWorkers : WorkerFinish(w)
    \/ Collect
    \/ Shutdown
    \/ WriteOutput

Spec == Init /\ [][Next]_vars

SpecEnrich == InitEnrich /\ [][Next]_vars

----------------------------------------------------------------------------
TypeOK ==
    /\ pc \in {"zones", "resolve", "submit", "collect", "unwind", "write",
               "done", "exited"}
    /\ exit_code \in {-1, 0, 1}
    /\ Len(futures) <= Len(all_instance_types)
    /\ pc \in {"collect", "unwind", "write", "done"}
           => Len(futures) = Len(all_instance_types)

----------------------------------------------------------------------------
(* Vocabulary of the properties                                             *)

Range(seq) == {seq[k] : k \in 1..Len(seq)}

\* the zone list the zone query returned
FetchedZones == Range(aws.zones.AvailabilityZones)

CapacityTypeOf(offering) == offering.Requirements[1].values
ZonesOf(offering) == offering.Requirements[2].values

\* positions of the offerings of a record with a capacity type and a zone
OfferingsFor(rec, capacity_type, z) ==
    {k \in 1..Len(rec.offerings) :
        /\ CapacityTypeOf(rec.offerings[k]) = <<capacity_type>>
        /\ ZonesOf(rec.offerings[k]) = <<z>>}

OfferingsOfType(rec, capacity_type) ==
    {k \in 1..Len(rec.offerings) :
        CapacityTypeOf(rec.offerings[k]) = <<capacity_type>>}

\* the prices the spot query reported for instance type t in zone z
ReportedSpotPrices(t, z) ==
    IF aws.spot[t].kind = "ok"
    THEN {e.SpotPrice : e \in {x \in Range(aws.spot[t].SpotPriceHistory) :
                                  x.AvailabilityZone = z}}
    ELSE {}

Minimum(S) == CHOOSE p \in S : \A q \in S : p <= q

\* the records emitted so far: collected, and written to the file
Emitted == Range(results) \cup Range(output.records)

\* the records process_instance_type has returned, collected or not
Produced ==
    Emitted \cup {futures[i].outcome.rec :
                     i \in {j \in Finished : futures[j].outcome.kind = "record"}}

Terminated == pc \in {"done", "exited"}

----------------------------------------------------------------------------
(* C1: once instance types were submitted to the pool, no failure inside a  *)
(* process_instance_type call aborts the run: the main thread never unwinds *)
(* out of the collection loop and never exits before writing the output.    *)
C1_ErrorsStayInsideCoordinator ==
    futures # <<>> => pc \notin {"unwind", "exited"}

(* C2: when the run has ended, an instance type whose enrichment raised is  *)
(* not in the written output and every instance type whose enrichment       *)
(* returned a record has that record in the written output.                 *)
C2_NoResultLost ==
    (Terminated /\ futures # <<>>) =>
        /\ \A i \in 1..Len(futures) :
              futures[i].outcome.kind = "record" =>
                  /\ output.written
                  /\ futures[i].outcome.rec \in Range(output.records)
        /\ Len(output.records) =
               Cardinality({i \in 1..Len(futures) :
                               futures[i].outcome.kind = "record"})

(* C3: for every emitted record and every zone of the zone list, a zone     *)
(* with at least one reported spot price has exactly one spot offering,     *)
(* priced at the minimum reported for the zone, and a zone with no reported *)
(* price has no spot offering.                                              *)
C3_SpotOfferingPerReportedZone ==
    \A rec \in Emitted : \A z \in FetchedZones :
        LET reported == ReportedSpotPrices(rec.name, z)
            spot == OfferingsFor(rec, "spot", z)
        IN  IF reported # {}
            THEN /\ Cardinality(spot) = 1
                 /\ \A k \in spot : rec.offerings[k].Price = Minimum(reported)
            ELSE spot = {}

(* C4: for every emitted record, if get_on_demand_price returned a value    *)
(* other than None, every zone of the zone list has exactly one on-demand   *)
(* offering and all of them carry that price; if it returned None, the      *)
(* record has no on-demand offering.                                        *)
C4_OnDemandOfferingPerZone ==
    \A rec \in Emitted :
        LET price == get_on_demand_price(aws.od[rec.name]).price
        IN  IF price.some
            THEN /\ \A z \in FetchedZones :
                       Cardinality(OfferingsFor(rec, "on-demand", z)) = 1
                 /\ Cardinality(OfferingsOfType(rec, "on-demand"))
                        = Cardinality(FetchedZones)
                 /\ \A k \in OfferingsOfType(rec, "on-demand") :
                       rec.offerings[k].Price = price.value
            ELSE OfferingsOfType(rec, "on-demand") = {}

----------------------------------------------------------------------------
\* every family query was answered
AllResolved ==
    /\ Len(queried) = Len(args.instance_families)
    /\ exit_site \notin {"zones", "listing"}

\* the families (by position) whose query matched no instance type
EmptyFamilies ==
    {k \in 1..Len(queried) :
        \A t \in CatalogTypes : ~MatchesFilter(t, queried[k])}

(* C5: when every requested family resolved to zero instance types, the run *)
(* has started no Enricher call and written no output, and once the check   *)
(* after the family loop has run it has ended with a non-zero exit status;  *)
(* when some family resolved to zero types and another to at least one, the *)
(* run is not ended by that check and goes on to the fan-out.               *)
C5_AbortOnlyWhenNothingResolved ==
    AllResolved =>
        IF EmptyFamilies = 1..Len(queried)
        THEN /\ futures = <<>>
             /\ ~output.written
             /\ pc \in {"resolve", "exited"}
             /\ pc = "exited" => exit_code # 0
        ELSE /\ exit_site # "no_types"
             /\ pc \in {"resolve", "submit", "collect", "unwind", "write",
                        "done", "exited"}
             /\ pc = "exited" => futures # <<>>

\* two families were requested, both resolved to nothing, and the run ended
C5_Witness ==
    /\ AllResolved
    /\ Len(queried) = 2
    /\ EmptyFamilies = {1, 2}
    /\ futures = <<>>
    /\ ~output.written
    /\ pc = "exited"
    /\ exit_code = 1

(* C6: a family token F.S, F a family name and S a size suffix, is passed   *)
(* to the instance type query as F, like the bare token F, and the          *)
(* normalization applied to its own result changes nothing.                 *)
C6_SizeSuffixStripped ==
    \A k \in 1..Len(queried) :
        LET token == args.instance_families[k]
            dots == {i \in 1..Len(token) : token[i] = "."}
        IN  /\ dots = {} => queried[k] = token
            /\ \A i \in dots :
                  (dots = {i} /\ 1 < i /\ i < Len(token))
                      => queried[k] = SubSeq(token, 1, i - 1)
            /\ StripSize(queried[k]) = queried[k]

(* C7: an emitted record of an instance type whose reported architecture    *)
(* list contains x86_64 has architecture amd64; a record of an instance     *)
(* type that reports other architectures only has the reported value.       *)
C7_ArchitectureOfX86Types ==
    \A rec \in Emitted :
        LET info == aws.hw[rec.name].InstanceTypes[1]
        IN  info.hasArchitectures =>
                IF "x86_64" \in Range(info.SupportedArchitectures)
                THEN rec.architecture = "amd64"
                ELSE rec.architecture \in Range(info.SupportedArchitectures)

(* C8: every offering of every returned, collected or written record names exactly one zone in its *)
(* zone requirement, and that zone is in the zone list the run fetched; no  *)
(* offering names a zone outside that list, whatever the spot query         *)
(* reported.                                                                *)
C8_OfferingZonesFromZoneList ==
    \A rec \in Produced : \A k \in 1..Len(rec.offerings) :
        /\ rec.offerings[k].Requirements[2].key = "topology.kubernetes.io/zone"
        /\ Len(ZonesOf(rec.offerings[k])) = 1
        /\ ZonesOf(rec.offerings[k])[1] \in FetchedZones

\* an emitted record with an offering, although the spot query also
\* reported a non-zero price for a zone that is not in the zone list
C8_Witness ==
    \E rec \in Emitted :
        /\ rec.offerings # <<>>
        /\ \E z \in Zones \ FetchedZones :
              /\ ReportedSpotPrices(rec.name, z) # {}
              /\ Minimum(ReportedSpotPrices(rec.name, z)) # 0

----------------------------------------------------------------------------
\* what holds of the pool in every state
PoolBounded ==
    /\ Cardinality(Running) <= args.max_workers
    /\ \A w \in 1..MaxWorkers :
          worker[w] # 0 => futures[worker[w]].state = "running"
    /\ \A i \in Running :
          Cardinality({w \in 1..MaxWorkers : worker[w] = i}) = 1
    /\ \A i \in 1..Len(futures) :
          futures[i].starts = (IF futures[i].state = "pending" THEN 0 ELSE 1)
    /\ (pc \in {"write", "done"} \/ exit_site = "worker") =>
          /\ Len(futures) = Len(all_instance_types)
          /\ \A i \in 1..Len(futures) :
                futures[i].state = "finished" /\ futures[i].starts = 1

\* a pool thread leaves a call only by finishing it
RunsToCompletion ==
    \A w \in 1..MaxWorkers :
        (worker[w] # 0 /\ worker'[w] # worker[w]) =>
            /\ worker'[w] = 0
            /\ futures'[worker[w]].state = "finished"

\* results changes only in a step of the collection loop of the main thread,
\* a step in which no pool thread moves
OnlyCoordinatorAppends ==
    results' # results =>
        /\ pc = "collect"
        /\ worker' = worker
        /\ futures' = futures
        /\ Len(results') = Len(results) + 1

(* C9: at every moment at most max-workers Enricher calls are in progress,  *)
(* a pool thread runs its call to completion before it takes the next       *)
(* pending instance type, every submitted instance type is started exactly  *)
(* once, and results is appended to by the main thread only.                *)
C9_BoundedPoolSingleWriter ==
    /\ []PoolBounded
    /\ [][RunsToCompletion /\ OnlyCoordinatorAppends]_vars

\* the pool is full (as many calls in progress as max-workers allows, here
\* two) while another instance type waits in the queue
C9_Witness ==
    /\ args.max_workers = 2
    /\ Cardinality(Running) = 2
    /\ Pending # {}

----------------------------------------------------------------------------
HardwareFound(t) == get_instance_details(aws.hw[t]).kind = "ok"

====
